---- MODULE Spec2Model ----
(***************************************************************************)
(* Model of the PDF Transform Facade of js/image-tools.js (class           *)
(* PDFTools): mergePDFs, splitPDF, getPDFPageCount and downloadAsZip.      *)
(*                                                                         *)
(* The facade is single-threaded; one call runs at a time and is cut into  *)
(* actions at its await points.  A source file is a record                 *)
(*   [id, name, ok, n]                                                     *)
(* where ok says whether PDFLib.PDFDocument.load accepts its bytes and n   *)
(* is its page count.  A loaded document is the sequence of its pages and  *)
(* the page k of the file id is the value <<id, k>>.  An optional          *)
(* JavaScript value is a sequence of length 0 (undefined) or 1.            *)
(*                                                                         *)
(* The same module models ImageTools.convertToWebP and resizeImage (two    *)
(* promise-returning calls that may be in flight together, specification   *)
(* SpecImg) and UI.initMobileNavigation of js/ui.js (specification SpecUI).*)
(* A JavaScript number of the image code is an exact fraction <<n, d>>.    *)
(***************************************************************************)
EXTENDS Integers, Sequences, FiniteSets, TLC

\* ------------------------------------------------------------------ bounds
MaxPages == 3
MaxFiles == 3
MaxSel == 3
MaxDim == 3
MaxReq == 2
WidthSpread == 8

\* ----------------------------------------------------------------- helpers
Max(a, b) == IF a >= b THEN a ELSE b

Min(a, b) == IF a <= b THEN a ELSE b

BoundedSeq(S, n) == UNION {[1..k -> S] : k \in 0..n}

Range(s) == {s[i] : i \in 1..Len(s)}

Undefined == <<>>

Some(v) == <<v>>

\* JavaScript  v || d  for an optional number: undefined and 0 are falsy.
OrElse(v, d) == IF v # Undefined /\ v[1] # 0 THEN v[1] ELSE d

\* ------------------------------------------------------------------- files
PdfName == [base |-> "doc", pages |-> <<>>, ext |-> "pdf"]

NoFile == [id |-> 0, name |-> PdfName, ok |-> FALSE, n |-> 0]

SourceFiles == [id : {1}, name : {PdfName}, ok : BOOLEAN, n : 0..MaxPages]

\* the files argument of mergePDFs: the i-th file has id i
MergeInputs ==
    UNION {{[i \in 1..k |-> [id |-> i, name |-> PdfName, ok |-> s[i][1], n |-> s[i][2]]]
              : s \in [1..k -> BOOLEAN \X (0..MaxPages)]} : k \in 0..MaxFiles}

\* PDFLib.PDFDocument.load(arrayBuffer) followed by the document's pages
Load(f) == [k \in 1..f.n |-> <<f.id, k>>]

\* pdf.getPageIndices()
GetPageIndices(doc) == [i \in 1..Len(doc) |-> i - 1]

\* copyPages reads srcPages[index] for every index: an index outside the
\* source document has no page to copy and the call throws.
CanCopy(doc, indices) == \A i \in 1..Len(indices) : indices[i] \in 0..(Len(doc) - 1)

CopyPagesReversed(doc, indices) ==
    [i \in 1..Len(indices) |-> doc[indices[Len(indices) + 1 - i] + 1]]

\* newPdf.copyPages(pdf, indices) and the forEach(addPage) that follows it
CopyPages(doc, indices) == [i \in 1..Len(indices) |-> doc[indices[i] + 1]]

\* ------------------------------------------------------------------- state
VARIABLES
    op,          \* the running call: "idle", "merge", "split", "count", "zip"
    pc,          \* its position
    files,       \* argument of mergePDFs / downloadAsZip
    file,        \* argument of splitPDF / getPDFPageCount
    splitMethod, \* argument of splitPDF
    options,     \* argument of splitPDF
    pdf,         \* the loaded source document (splitPDF)
    mergedPdf,   \* the destination document (mergePDFs)
    totalPages,  \* local totalPages of mergePDFs / splitPDF
    idx,         \* position of the for...of loop
    pageIndices, \* local pageIndices of splitPDF
    splitFiles,  \* local splitFiles of splitPDF
    docsCreated, \* PDFDocument.create() calls made by the running call
    docsSaved,   \* save() calls made by the running call
    zip,         \* the JSZip object: entries in insertion order
    downloads,   \* what createDownloadLink emitted during the running call
    JSZipDefined,\* typeof JSZip !== 'undefined' on this page
    console,     \* what the running call passed to console.error
    outcome,     \* "pending", "resolved", "rejected"
    result,      \* the value the promise resolved with
    error,       \* the message the promise rejected with
    calls,       \* ImageTools: the convertToWebP / resizeImage calls in flight
    liveUrls,    \* the object URLs created and not yet revoked
    ui           \* the page of js/ui.js: window width, nav and menu toggle

pdfVars == <<op, pc, files, file, splitMethod, options, pdf, mergedPdf, totalPages,
             idx, pageIndices, splitFiles, docsCreated, docsSaved, zip, downloads,
             JSZipDefined, console, outcome, result, error>>

imgVars == <<calls, liveUrls>>

otherVars == <<imgVars, ui>>

vars == <<pdfVars, imgVars, ui>>

mergeVars == <<mergedPdf>>

splitVars == <<file, splitMethod, options, pdf, pageIndices, splitFiles>>

zipVars == <<zip, downloads, JSZipDefined>>

NoOptions == [start |-> Undefined, end |-> Undefined, selectedPages |-> Undefined]

NoResult == [kind |-> "none"]

PdfInit ==
    /\ op = "idle"
    /\ pc = "idle"
    /\ files = <<>>
    /\ file = NoFile
    /\ splitMethod = ""
    /\ options = NoOptions
    /\ pdf = <<>>
    /\ mergedPdf = <<>>
    /\ totalPages = 0
    /\ idx = 0
    /\ pageIndices = <<>>
    /\ splitFiles = <<>>
    /\ docsCreated = 0
    /\ docsSaved = 0
    /\ zip = <<>>
    /\ downloads = <<>>
    /\ JSZipDefined \in BOOLEAN
    /\ console = <<>>
    /\ outcome = "pending"
    /\ result = NoResult
    /\ error = ""

\* the catch block of mergePDFs / splitPDF: log and rethrow
Reject(label, msg) ==
    /\ console' = Append(console, label)
    /\ outcome' = "rejected"
    /\ error' = msg
    /\ result' = NoResult
    /\ pc' = "done"

\* return value: the promise of the async function resolves
Resolve(value) ==
    /\ outcome' = "resolved"
    /\ result' = value
    /\ error' = ""
    /\ pc' = "done"

\* --------------------------------------------------------------- mergePDFs
\* call, PDFDocument.create(), totalPages = 0, entry of the loop
MergePDFs ==
    /\ op = "idle"
    /\ \E fs \in MergeInputs :
        /\ op' = "merge"
        /\ pc' = "loop"
        /\ files' = fs
        /\ mergedPdf' = <<>>
        /\ totalPages' = 0
        /\ idx' = 1
        /\ docsCreated' = 1
        /\ UNCHANGED <<splitVars, zipVars, otherVars, docsSaved, console, outcome, result, error>>

MergeFileSkip ==
    /\ op = "merge" /\ pc = "loop" /\ idx <= Len(files)
    /\ IF files[idx].ok
         THEN /\ mergedPdf' = mergedPdf \o CopyPages(Load(files[idx]), GetPageIndices(Load(files[idx])))
              /\ totalPages' = totalPages + Len(Load(files[idx]))
         ELSE UNCHANGED <<mergedPdf, totalPages>>
    /\ idx' = idx + 1
    /\ UNCHANGED <<op, pc, files, splitVars, zipVars, otherVars, docsCreated, docsSaved,
                   console, outcome, result, error>>

\* one iteration of  for (const file of files)
MergeFile ==
    /\ op = "merge" /\ pc = "loop" /\ idx <= Len(files)
    /\ IF files[idx].ok
         THEN /\ mergedPdf' = mergedPdf \o CopyPages(Load(files[idx]), GetPageIndices(Load(files[idx])))
              /\ totalPages' = totalPages + Len(Load(files[idx]))
              /\ idx' = idx + 1
              /\ UNCHANGED <<pc, console, outcome, result, error>>
         ELSE /\ Reject("PDF merge error:", "decode")
              /\ UNCHANGED <<mergedPdf, totalPages, idx>>
    /\ UNCHANGED <<op, files, splitVars, zipVars, otherVars, docsCreated, docsSaved>>

\* mergedPdf.save(), new Blob, return
MergeSave ==
    /\ op = "merge" /\ pc = "loop" /\ idx > Len(files)
    /\ docsSaved' = docsSaved + 1
    /\ Resolve([kind |-> "merge",
                blob |-> [type |-> "application/pdf", pages |-> mergedPdf],
                pages |-> totalPages])
    /\ UNCHANGED <<op, files, mergeVars, splitVars, zipVars, otherVars, totalPages, idx,
                   docsCreated, console>>

\* ---------------------------------------------------------------- splitPDF
Methods == {"all", "range", "custom", "pages"}

PageArgs == (0 - 1)..(MaxPages + 1)

OptNumbers == {Undefined} \cup {Some(v) : v \in PageArgs}

OptSelections == {Undefined} \cup {Some(s) : s \in BoundedSeq(0..(MaxPages + 1), MaxSel)}

\* the options argument: a range form and a selection form
SplitOptions ==
    [start : OptNumbers, end : OptNumbers, selectedPages : {Undefined}]
      \cup [start : {Undefined}, end : {Undefined}, selectedPages : OptSelections]

AllIndicesOnePdf(total) == <<[i \in 1..total |-> i - 1]>>

\* case 'all':  Array.from({ length: totalPages }, (_, i) => [i])
AllIndices(total) == [i \in 1..total |-> <<i - 1>>]

\* const start = Math.max(1, options.start || 1) - 1
RangeStart(o) == Max(1, OrElse(o.start, 1)) - 1

\* const end = Math.min(totalPages, options.end || totalPages) - 1
RangeEnd(o, total) == Min(total, OrElse(o.end, total)) - 1

RangeIndicesShifted(start, end) == <<[i \in 1..(end - start + 1) |-> start + i]>>

\* [Array.from({ length: end - start + 1 }, (_, i) => start + i)]
RangeIndices(start, end) == <<[i \in 1..(end - start + 1) |-> start + (i - 1)]>>

\* insertion of x into an ascending sequence, after the elements equal to it
RECURSIVE Insert(_, _)
Insert(x, s) ==
    IF s = <<>> THEN <<x>>
    ELSE IF x - Head(s) < 0 THEN <<x>> \o s
    ELSE <<Head(s)>> \o Insert(x, Tail(s))

RECURSIVE InsertionSort(_)
InsertionSort(s) ==
    IF s = <<>> THEN <<>> ELSE Insert(s[Len(s)], InsertionSort(SubSeq(s, 1, Len(s) - 1)))

SortAscUnsorted(s) == s

\* .sort((a, b) => a - b): a stable ascending numeric sort
SortAsc(s) == InsertionSort(s)

\* options.selectedPages.map(p => p - 1).sort((a, b) => a - b)
CustomIndices(sel) == <<SortAsc([i \in 1..Len(sel) |-> sel[i] - 1])>>

SelectPagesLenient(method, o, total) ==
    CASE method = "range" ->
           IF RangeStart(o) > RangeEnd(o, total)
             THEN [err |-> "Invalid page range", indices |-> <<>>]
             ELSE [err |-> "", indices |-> RangeIndices(RangeStart(o), RangeEnd(o, total))]
      [] method = "custom" ->
           IF o.selectedPages = Undefined
             THEN [err |-> "", indices |-> <<<<>>>>]
             ELSE [err |-> "", indices |-> CustomIndices(o.selectedPages[1])]
      [] OTHER -> [err |-> "", indices |-> AllIndices(total)]

\* the switch (splitMethod) of splitPDF: the page-index sequences, or the
\* message of the Error it throws
SelectPages(method, o, total) ==
    CASE method = "all" -> [err |-> "", indices |-> AllIndices(total)]
      [] method = "range" ->
           IF RangeStart(o) > RangeEnd(o, total)
             THEN [err |-> "Invalid page range", indices |-> <<>>]
             ELSE [err |-> "", indices |-> RangeIndices(RangeStart(o), RangeEnd(o, total))]
      [] method = "custom" ->
           IF o.selectedPages = Undefined \/ Len(o.selectedPages[1]) = 0
             THEN [err |-> "No pages selected", indices |-> <<>>]
             ELSE [err |-> "", indices |-> CustomIndices(o.selectedPages[1])]
      [] OTHER -> [err |-> "Invalid split method", indices |-> <<>>]

\* the name of an output file: the source name without its extension, the
\* page numbers that the code joins with '-', and the extension .pdf
SplitFileName(f, method, sets, indices) ==
    [base  |-> f.name.base,
     pages |-> IF Len(sets) > 1 \/ method = "all"
                 THEN [i \in 1..Len(indices) |-> indices[i] + 1]
                 ELSE IF method = "range"
                        THEN <<indices[1] + 1, indices[Len(indices)] + 1>>
                        ELSE <<>>,
     ext   |-> "pdf"]

\* call, file.arrayBuffer(), PDFDocument.load, getPageCount
SplitPDF ==
    /\ op = "idle"
    /\ \E f \in SourceFiles, method \in Methods, o \in SplitOptions :
        /\ op' = "split"
        /\ file' = f
        /\ splitMethod' = method
        /\ options' = o
        /\ IF f.ok
             THEN /\ pdf' = Load(f)
                  /\ totalPages' = Len(Load(f))
                  /\ pc' = "select"
                  /\ UNCHANGED <<console, outcome, result, error>>
             ELSE /\ Reject("PDF split error:", "decode")
                  /\ UNCHANGED <<pdf, totalPages>>
        /\ UNCHANGED <<files, mergeVars, zipVars, otherVars, idx, pageIndices, splitFiles,
                       docsCreated, docsSaved>>

\* the switch, splitFiles = [], entry of the loop
SplitSelect ==
    /\ op = "split" /\ pc = "select"
    /\ LET sel == SelectPages(splitMethod, options, totalPages) IN
         IF sel.err = ""
           THEN /\ pageIndices' = sel.indices
                /\ splitFiles' = <<>>
                /\ idx' = 1
                /\ pc' = "copy"
                /\ UNCHANGED <<console, outcome, result, error>>
           ELSE /\ Reject("PDF split error:", sel.err)
                /\ UNCHANGED <<pageIndices, splitFiles, idx>>
    /\ UNCHANGED <<op, files, file, splitMethod, options, pdf, mergeVars, zipVars, otherVars,
                   totalPages, docsCreated, docsSaved>>

\* one iteration of  for (const indices of pageIndices)
SplitCopy ==
    /\ op = "split" /\ pc = "copy" /\ idx <= Len(pageIndices)
    /\ docsCreated' = docsCreated + 1
    /\ IF CanCopy(pdf, pageIndices[idx])
         THEN /\ docsSaved' = docsSaved + 1
              /\ splitFiles' = Append(splitFiles,
                     [name  |-> SplitFileName(file, splitMethod, pageIndices, pageIndices[idx]),
                      type  |-> "application/pdf",
                      pages |-> CopyPages(pdf, pageIndices[idx])])
              /\ idx' = idx + 1
              /\ UNCHANGED <<pc, console, outcome, result, error>>
         ELSE /\ Reject("PDF split error:", "copy")
              /\ UNCHANGED <<docsSaved, splitFiles, idx>>
    /\ UNCHANGED <<op, files, file, splitMethod, options, pdf, pageIndices,
                   mergeVars, zipVars, otherVars, totalPages>>

\* return { files: splitFiles, totalPages: totalPages }
SplitReturn ==
    /\ op = "split" /\ pc = "copy" /\ idx > Len(pageIndices)
    /\ Resolve([kind |-> "split", files |-> splitFiles, totalPages |-> totalPages])
    /\ UNCHANGED <<op, files, splitVars, mergeVars, zipVars, otherVars, totalPages, idx,
                   docsCreated, docsSaved, console>>

\* --------------------------------------------------------- getPDFPageCount
GetPDFPageCountRethrow ==
    /\ op = "idle"
    /\ \E f \in SourceFiles :
        /\ op' = "count"
        /\ file' = f
        /\ IF f.ok
             THEN /\ Resolve([kind |-> "count", count |-> Len(Load(f))])
                  /\ UNCHANGED console
             ELSE Reject("Error getting page count:", "decode")
        /\ UNCHANGED <<files, splitMethod, options, pdf, pageIndices, splitFiles,
                       mergeVars, zipVars, otherVars, totalPages, idx, docsCreated, docsSaved>>

\* the whole call: the count of the loaded document, or 0 from the catch block
GetPDFPageCount ==
    /\ op = "idle"
    /\ \E f \in SourceFiles :
        /\ op' = "count"
        /\ file' = f
        /\ IF f.ok
             THEN /\ Resolve([kind |-> "count", count |-> Len(Load(f))])
                  /\ UNCHANGED console
             ELSE /\ console' = Append(console, "Error getting page count:")
                  /\ Resolve([kind |-> "count", count |-> 0])
        /\ UNCHANGED <<files, splitMethod, options, pdf, pageIndices, splitFiles,
                       mergeVars, zipVars, otherVars, totalPages, idx, docsCreated, docsSaved>>

\* ----------------------------------------------------------- downloadAsZip
ZipNames == {"a.pdf", "b.pdf"}

\* the files argument of downloadAsZip: the i-th file has id i
ZipInputs ==
    UNION {{[i \in 1..k |-> [kind |-> "file", name |-> s[i], id |-> i]]
              : s \in [1..k -> ZipNames]} : k \in 0..MaxFiles}

\* createDownloadLink(blob, fileName): one click on an anchor for the blob
CreateDownloadLink(d, blob, fileName) == Append(d, [name |-> fileName, blob |-> blob])

\* files.forEach(file => this.createDownloadLink(file, file.name))
RECURSIVE EmitAll(_, _)
EmitAll(d, fs) ==
    IF fs = <<>> THEN d
    ELSE EmitAll(CreateDownloadLink(d, Head(fs), Head(fs).name), Tail(fs))

\* zip.file(name, data): adds the entry, or replaces the entry of that name
ZipFile(z, name, data) ==
    IF \E i \in 1..Len(z) : z[i].name = name
      THEN [i \in 1..Len(z) |-> IF z[i].name = name THEN [name |-> name, data |-> data] ELSE z[i]]
      ELSE Append(z, [name |-> name, data |-> data])

\* files.forEach((file, index) => zip.file(file.name, file))
RECURSIVE AddFiles(_, _)
AddFiles(z, fs) ==
    IF fs = <<>> THEN z
    ELSE AddFiles(ZipFile(z, Head(fs).name, Head(fs)), Tail(fs))

\* call up to the await of generateAsync.  failAt = k > 0: zip.file throws
\* for the k-th file and the catch block runs.
DownloadAsZip ==
    /\ op = "idle"
    /\ \E fs \in ZipInputs, failAt \in 0..MaxFiles :
        /\ op' = "zip"
        /\ files' = fs
        /\ IF ~JSZipDefined
             THEN /\ downloads' = EmitAll(downloads, fs)
                  /\ Resolve([kind |-> "undefined"])
                  /\ UNCHANGED <<zip, console>>
             ELSE IF failAt \in 1..Len(fs)
               THEN /\ zip' = AddFiles(<<>>, SubSeq(fs, 1, failAt - 1))
                    /\ console' = Append(console, "Error creating ZIP:")
                    /\ downloads' = EmitAll(downloads, fs)
                    /\ Resolve([kind |-> "undefined"])
               ELSE /\ zip' = AddFiles(<<>>, fs)
                    /\ pc' = "generate"
                    /\ UNCHANGED <<downloads, console, outcome, result, error>>
        /\ UNCHANGED <<splitVars, mergeVars, JSZipDefined, otherVars, totalPages, idx,
                       docsCreated, docsSaved>>

\* after the await of zip.generateAsync: the archive, or the catch block
ZipGenerate(fails) ==
    /\ op = "zip" /\ pc = "generate"
    /\ IF fails
         THEN /\ console' = Append(console, "Error creating ZIP:")
              /\ downloads' = EmitAll(downloads, files)
         ELSE /\ downloads' = CreateDownloadLink(downloads,
                                 [kind |-> "zip", entries |-> zip], "download.zip")
              /\ UNCHANGED console
    /\ Resolve([kind |-> "undefined"])
    /\ UNCHANGED <<op, files, splitVars, mergeVars, zip, JSZipDefined, otherVars, totalPages,
                   idx, docsCreated, docsSaved>>

\* ------------------------------------------------------------ end of a call
Return ==
    /\ pc = "done"
    /\ op' = "idle"
    /\ pc' = "idle"
    /\ files' = <<>>
    /\ file' = NoFile
    /\ splitMethod' = ""
    /\ options' = NoOptions
    /\ pdf' = <<>>
    /\ mergedPdf' = <<>>
    /\ totalPages' = 0
    /\ idx' = 0
    /\ pageIndices' = <<>>
    /\ splitFiles' = <<>>
    /\ docsCreated' = 0
    /\ docsSaved' = 0
    /\ zip' = <<>>
    /\ downloads' = <<>>
    /\ console' = <<>>
    /\ UNCHANGED <<JSZipDefined, otherVars>>
    /\ outcome' = "pending"
    /\ result' = NoResult
    /\ error' = ""

\* ============================================================== ImageTools
\* ------------------------------------------------------------------ numbers
RECURSIVE GCD(_, _)
GCD(a, b) == IF b = 0 THEN a ELSE GCD(b, a % b)

\* a non-negative number as a fraction in lowest terms
Rat(n, d) == <<n \div GCD(n, d), d \div GCD(n, d)>>

Num(n) == <<n, 1>>

RatDiv(a, b) == Rat(a[1] * b[2], a[2] * b[1])

RatMul(a, b) == Rat(a[1] * b[1], a[2] * b[2])

RatLE(a, b) == a[1] * b[2] <= b[1] * a[2]

RatMax(a, b) == IF RatLE(a, b) THEN b ELSE a

\* Math.min
RatMin(a, b) == IF RatLE(a, b) THEN a ELSE b

IsWhole(v) == v # Undefined /\ v[2] = 1

\* a number in a condition: undefined and 0 are falsy
Truthy(v) == v # Undefined /\ v[1] # 0

\* the conversion of canvas.width = v / canvas.height = v (unsigned long):
\* the fraction is dropped and undefined becomes 0
ToUint32(v) == IF v = Undefined THEN 0 ELSE v[1] \div v[2]

\* ------------------------------------------------------------ the arguments
Calls == {1, 2}

Urls == 1..(Cardinality(Calls) + 1)

ImgKinds == {[ext |-> "jpg", type |-> "image/jpeg"], [ext |-> "PNG", type |-> "image/png"]}

\* the file argument: a decodable image has natural size width x height,
\* an undecodable one never gets a size.  Call 1 draws its arguments from the
\* full sets; the call that runs beside it draws them from a small set.
ImgFiles(c) ==
    IF c = 1
      THEN {[name |-> [base |-> "photo", ext |-> k.ext], type |-> k.type,
             ok |-> TRUE, width |-> w, height |-> h]
               : k \in ImgKinds, w \in 1..MaxDim, h \in 1..MaxDim}
           \cup {[name |-> [base |-> "photo", ext |-> k.ext], type |-> k.type,
                  ok |-> FALSE, width |-> 0, height |-> 0] : k \in ImgKinds}
      ELSE {[name |-> [base |-> "other", ext |-> "jpg"], type |-> "image/jpeg",
             ok |-> TRUE, width |-> 1, height |-> 1],
            [name |-> [base |-> "other", ext |-> "jpg"], type |-> "image/jpeg",
             ok |-> FALSE, width |-> 0, height |-> 0]}

\* the width and height arguments: undefined or a whole number
OptDims(c) == IF c = 1 THEN {Undefined} \cup {Num(v) : v \in 0..MaxReq} ELSE {Num(1)}

OutputFormats(c) == IF c = 1 THEN {"original", "png"} ELSE {"original"}

\* the quality argument: undefined takes the default 0.8
Qualities(c) == IF c = 1 THEN {Undefined, Rat(1, 2), Rat(1, 1)} ELSE {Undefined}

\* maintainAspectRatio (default true) and lossless (default false)
AspectFlags(c) == IF c = 1 THEN BOOLEAN ELSE {TRUE}

LosslessFlags(c) == IF c = 1 THEN BOOLEAN ELSE {FALSE}

NoImgFile == [name |-> [base |-> "", ext |-> ""], type |-> "", ok |-> FALSE,
              width |-> 0, height |-> 0]

NoCanvas == [width |-> 0, height |-> 0]

\* a call that is not running
IdleCall ==
    [phase |-> "idle", tool |-> "", file |-> NoImgFile,
     width |-> Undefined, height |-> Undefined, maintainAspectRatio |-> TRUE,
     outputFormat |-> "original", quality |-> Undefined, lossless |-> FALSE,
     url |-> 0, created |-> 0, revoked |-> 0,
     newWidth |-> Undefined, newHeight |-> Undefined, canvas |-> NoCanvas,
     qualityParam |-> Undefined, threw |-> FALSE,
     promise |-> "pending", settled |-> 0, value |-> NoResult, error |-> ""]

ImgInit ==
    /\ calls = [c \in Calls |-> IdleCall]
    /\ liveUrls = {}

\* URL.createObjectURL(file): a URL no call holds
FreshUrl == CHOOSE u \in Urls : u \notin liveUrls /\ \A c \in Calls : calls[c].url # u

\* ----------------------------------------------------------- pure functions
\* filename.replace(/\.[^/.]+$/, "")
StripExtension(name) == name.base

\* 'abc'.toLowerCase() on the extensions in use
ToLowerCase(e) == IF e = "PNG" THEN "png" ELSE e

\* getFileExtension: filename.split('.').pop().toLowerCase()
GetFileExtension(name) == ToLowerCase(name.ext)

QualityParamIgnoreLossless(quality, lossless) == quality

\* const qualityParam = lossless ? 1 : quality
QualityParam(quality, lossless) == IF lossless THEN Num(1) ELSE quality

FitRatioFill(widthRatio, heightRatio) == RatMax(widthRatio, heightRatio)

\* const ratio = Math.min(widthRatio, heightRatio)
FitRatio(widthRatio, heightRatio) == RatMin(widthRatio, heightRatio)

DerivedHeightInverted(width, aspectRatio) == RatMul(width, aspectRatio)

\* newHeight = width / aspectRatio
DerivedHeight(width, aspectRatio) == RatDiv(width, aspectRatio)

\* newWidth = height * aspectRatio
DerivedWidth(height, aspectRatio) == RatMul(height, aspectRatio)

\* the dimension computation of resizeImage's load handler
ResizeDims(img, width, height, maintainAspectRatio) ==
    IF ~maintainAspectRatio
      THEN [newWidth |-> width, newHeight |-> height]
      ELSE LET aspectRatio == RatDiv(Num(img.width), Num(img.height)) IN
           IF Truthy(width) /\ ~Truthy(height)
             THEN [newWidth |-> width, newHeight |-> DerivedHeight(width, aspectRatio)]
           ELSE IF Truthy(height) /\ ~Truthy(width)
             THEN [newWidth |-> DerivedWidth(height, aspectRatio), newHeight |-> height]
           ELSE IF Truthy(width) /\ Truthy(height)
             THEN LET ratio == FitRatio(RatDiv(width, Num(img.width)),
                                        RatDiv(height, Num(img.height)))
                  IN  [newWidth  |-> RatMul(Num(img.width), ratio),
                       newHeight |-> RatMul(Num(img.height), ratio)]
           ELSE [newWidth |-> width, newHeight |-> height]

\* canvas.width = w; canvas.height = h
Canvas(w, h) == [width |-> ToUint32(w), height |-> ToUint32(h)]

\* the type an encoder exists for; any other type is encoded as PNG
EncodedType(mimeType) ==
    IF mimeType \in {"image/png", "image/jpeg", "image/webp"} THEN mimeType ELSE "image/png"

\* canvas.toDataURL(mimeType, quality) as the pieces of the string: a canvas
\* without pixels gives "data:,"
ToDataURL(canvas, mimeType, quality) ==
    IF canvas.width = 0 \/ canvas.height = 0
      THEN <<"data:", ",">>
      ELSE <<"data:", EncodedType(mimeType), ";base64", ",",
             [width |-> canvas.width, height |-> canvas.height,
              quality |-> IF EncodedType(mimeType) = "image/png" THEN Undefined ELSE quality]>>

\* dataURL.split(',')
CommaAt(u) == CHOOSE i \in 1..Len(u) : u[i] = "," /\ \A j \in 1..(i - 1) : u[j] # ","

\* arr[0].match(/:(.*?);/): the text between the ':' and the ';', or null
MatchMime(head) ==
    IF Len(head) >= 3 /\ head[1] = "data:" /\ head[3] = ";base64"
      THEN Some(head[2]) ELSE Undefined

\* dataURLToBlob: reading [1] of a null match throws
DataURLToBlob(u) ==
    LET head  == SubSeq(u, 1, CommaAt(u) - 1)
        tail  == SubSeq(u, CommaAt(u) + 1, Len(u))
        match == MatchMime(head)
    IN  IF match = Undefined
          THEN [threw |-> TRUE, blob |-> NoResult]
          ELSE [threw |-> FALSE, blob |-> [kind |-> "blob", type |-> match[1], data |-> tail]]

\* ------------------------------------------------------------------ actions
\* convertToWebP(file, quality = 0.8, lossless = false): the executor of the
\* promise runs up to  img.src = url
ConvertToWebP(c) ==
    /\ calls[c].phase = "idle"
    /\ \E f \in ImgFiles(c), q \in Qualities(c), l \in LosslessFlags(c) :
        /\ calls' = [calls EXCEPT ![c] =
              [IdleCall EXCEPT !.phase = "loading", !.tool = "webp", !.file = f,
                               !.quality = IF q = Undefined THEN Rat(4, 5) ELSE q,
                               !.lossless = l,
                               !.url = FreshUrl, !.created = 1]]
        /\ liveUrls' = liveUrls \cup {FreshUrl}
    /\ UNCHANGED <<pdfVars, ui>>

\* resizeImage(file, width, height, maintainAspectRatio = true,
\* outputFormat = 'original'): the executor runs up to  img.src = url
ResizeImage(c) ==
    /\ calls[c].phase = "idle"
    /\ \E f \in ImgFiles(c), w \in OptDims(c), h \in OptDims(c),
          m \in AspectFlags(c), o \in OutputFormats(c) :
        /\ calls' = [calls EXCEPT ![c] =
              [IdleCall EXCEPT !.phase = "loading", !.tool = "resize", !.file = f,
                               !.width = w, !.height = h,
                               !.maintainAspectRatio = m, !.outputFormat = o,
                               !.url = FreshUrl, !.created = 1]]
        /\ liveUrls' = liveUrls \cup {FreshUrl}
    /\ UNCHANGED <<pdfVars, ui>>

\* the File that convertToWebP's load handler builds, or the throw
WebPOutcome(k) ==
    LET canvas  == Canvas(Num(k.file.width), Num(k.file.height))
        qp      == QualityParam(k.quality, k.lossless)
        conv    == DataURLToBlob(ToDataURL(canvas, "image/webp", qp))
    IN  [newWidth |-> Num(k.file.width), newHeight |-> Num(k.file.height),
         canvas |-> canvas, qualityParam |-> qp, threw |-> conv.threw,
         value |-> [kind |-> "file",
                    name |-> [base |-> StripExtension(k.file.name), ext |-> "webp"],
                    type |-> "image/webp", blob |-> conv.blob]]

\* the File that resizeImage's load handler builds, or the throw
ResizeOutcome(k) ==
    LET dims     == ResizeDims(k.file, k.width, k.height, k.maintainAspectRatio)
        canvas   == Canvas(dims.newWidth, dims.newHeight)
        mimeType == IF k.outputFormat # "original" THEN "image/" \o k.outputFormat
                                                   ELSE k.file.type
        qp       == Rat(9, 10)
        conv     == DataURLToBlob(ToDataURL(canvas, mimeType, qp))
        ext      == IF k.outputFormat = "original" THEN GetFileExtension(k.file.name)
                                                   ELSE k.outputFormat
    IN  [newWidth |-> dims.newWidth, newHeight |-> dims.newHeight,
         canvas |-> canvas, qualityParam |-> qp, threw |-> conv.threw,
         value |-> [kind |-> "file",
                    name |-> [base |-> StripExtension(k.file.name),
                              width |-> dims.newWidth, height |-> dims.newHeight,
                              ext |-> ext],
                    type |-> mimeType, blob |-> conv.blob]]

\* img.onload: revoke the URL, draw, encode, resolve.  A throw inside the
\* handler leaves the handler without settling the promise.
ImgOnLoad(c) ==
    /\ calls[c].phase = "loading"
    /\ calls[c].file.ok
    /\ LET k == calls[c]
           r == IF k.tool = "webp" THEN WebPOutcome(k) ELSE ResizeOutcome(k)
       IN  calls' = [calls EXCEPT ![c] =
              [k EXCEPT !.phase = "finished", !.revoked = k.revoked + 1,
                        !.newWidth = r.newWidth, !.newHeight = r.newHeight,
                        !.canvas = r.canvas, !.qualityParam = r.qualityParam,
                        !.threw = r.threw,
                        !.promise = IF r.threw THEN "pending" ELSE "resolved",
                        !.settled = IF r.threw THEN k.settled ELSE k.settled + 1,
                        !.value = IF r.threw THEN NoResult ELSE r.value]]
    /\ liveUrls' = liveUrls \ {calls[c].url}
    /\ UNCHANGED <<pdfVars, ui>>

ImgOnErrorLeak(c) ==
    /\ calls[c].phase = "loading"
    /\ ~calls[c].file.ok
    /\ calls' = [calls EXCEPT ![c] =
          [calls[c] EXCEPT !.phase = "finished",
                           !.promise = "rejected", !.settled = calls[c].settled + 1,
                           !.error = "Failed to load image"]]
    /\ UNCHANGED <<liveUrls, pdfVars, ui>>

\* img.onerror: revoke the URL and reject
ImgOnError(c) ==
    /\ calls[c].phase = "loading"
    /\ ~calls[c].file.ok
    /\ calls' = [calls EXCEPT ![c] =
          [calls[c] EXCEPT !.phase = "finished", !.revoked = calls[c].revoked + 1,
                           !.promise = "rejected", !.settled = calls[c].settled + 1,
                           !.error = "Failed to load image"]]
    /\ liveUrls' = liveUrls \ {calls[c].url}
    /\ UNCHANGED <<pdfVars, ui>>

\* the caller is done with the call
ImgReturn(c) ==
    /\ calls[c].phase = "finished"
    /\ calls' = [calls EXCEPT ![c] = IdleCall]
    /\ UNCHANGED <<liveUrls, pdfVars, ui>>

\* ====================================================================== UI
\* the width at which the page switches to the mobile navigation
Breakpoint == 768

\* window.innerWidth
Widths == (Breakpoint - WidthSpread)..(Breakpoint + WidthSpread)

\* the page before DOMContentLoaded: nav says whether .nav-links exists
UnloadedPage(w, nav) ==
    [loaded |-> FALSE, innerWidth |-> w, nav |-> nav, navDisplay |-> "",
     menuToggle |-> FALSE, toggleDisplay |-> "", toggleIcon |-> ""]

\* initMobileNavigation, called by the constructor of UI
InitMobileNavigation ==
    /\ ~ui.loaded
    /\ ui' = IF ui.nav /\ ui.innerWidth <= Breakpoint
               THEN [ui EXCEPT !.loaded = TRUE, !.menuToggle = TRUE,
                               !.toggleIcon = "fa-bars",
                               !.navDisplay = "none", !.toggleDisplay = "block"]
               ELSE [ui EXCEPT !.loaded = TRUE]
    /\ UNCHANGED <<pdfVars, imgVars>>

\* the click listener of the menu toggle; a hidden button takes no click
MenuToggleClick ==
    /\ ui.loaded /\ ui.menuToggle /\ ui.toggleDisplay = "block"
    /\ LET display == IF ui.navDisplay = "flex" THEN "none" ELSE "flex" IN
         ui' = [ui EXCEPT !.navDisplay = display,
                          !.toggleIcon = IF display = "flex" THEN "fa-times" ELSE "fa-bars"]
    /\ UNCHANGED <<pdfVars, imgVars>>

\* the window changes its width; the resize listener exists when the menu
\* toggle was created
WindowResize(w) ==
    /\ w # ui.innerWidth
    /\ ui' = IF ui.menuToggle
               THEN IF w > Breakpoint
                      THEN [ui EXCEPT !.innerWidth = w, !.navDisplay = "flex",
                                      !.toggleDisplay = "none"]
                      ELSE [ui EXCEPT !.innerWidth = w, !.navDisplay = "none",
                                      !.toggleDisplay = "block"]
               ELSE [ui EXCEPT !.innerWidth = w]
    /\ UNCHANGED <<pdfVars, imgVars>>

\* ========================================================== specifications
Next ==
    \/ MergePDFs
    \/ MergeFile
    \/ MergeSave
    \/ SplitPDF
    \/ SplitSelect
    \/ SplitCopy
    \/ SplitReturn
    \/ GetPDFPageCount
    \/ DownloadAsZip
    \/ \E fails \in BOOLEAN : ZipGenerate(fails)
    \/ Return

\* no page of js/ui.js: the frozen state of the UI under Spec and SpecImg
NoUI == UnloadedPage(Breakpoint, FALSE)

Init == PdfInit /\ ImgInit /\ ui = NoUI

Spec == Init /\ [][Next]_vars

NextImg ==
    \/ \E c \in Calls : ConvertToWebP(c)
    \/ \E c \in Calls : ResizeImage(c)
    \/ \E c \in Calls : ImgOnLoad(c)
    \/ \E c \in Calls : ImgOnError(c)
    \/ \E c \in Calls : ImgReturn(c)

\* PDFTools stays idle under SpecImg
InitImg == Init /\ JSZipDefined

SpecImg == InitImg /\ [][NextImg]_vars

\* PDFTools and ImageTools stay idle under SpecUI
InitUI ==
    /\ PdfInit /\ JSZipDefined
    /\ ImgInit
    /\ ui \in {UnloadedPage(w, nav) : w \in Widths, nav \in BOOLEAN}

NextUI ==
    \/ InitMobileNavigation
    \/ MenuToggleClick
    \/ \E w \in Widths : WindowResize(w)

SpecUI == InitUI /\ [][NextUI]_vars

\* ================================================================== claims
SplitDone == op = "split" /\ pc = "done"

MergeDone == op = "merge" /\ pc = "done"

\* the page sequence of the sources, file after file, each in its own order
RECURSIVE ConcatSources(_)
ConcatSources(fs) ==
    IF fs = <<>> THEN <<>>
    ELSE [k \in 1..Head(fs).n |-> <<Head(fs).id, k>>] \o ConcatSources(Tail(fs))

RECURSIVE SumPages(_)
SumPages(fs) == IF fs = <<>> THEN 0 ELSE Head(fs).n + SumPages(Tail(fs))

\* the selected page numbers in ascending order: position i holds the page p
\* with fewer than i selections below p and at least i selections up to p
Ascending(sel, n) ==
    [i \in 1..Len(sel) |->
        CHOOSE p \in 1..n :
            /\ Cardinality({j \in 1..Len(sel) : sel[j] < p}) < i
            /\ i <= Cardinality({j \in 1..Len(sel) : sel[j] <= p})]

\* C1: splitPDF(file, 'all') on a decodable N-page document (N >= 0) resolves
\* with exactly N files and totalPages = N, and the k-th file of the returned
\* list holds exactly one page, the source page k.
C1_SplitAll ==
    (SplitDone /\ file.ok /\ splitMethod = "all") =>
        /\ outcome = "resolved"
        /\ result.totalPages = file.n
        /\ Len(result.files) = file.n
        /\ \A k \in 1..file.n : result.files[k].pages = << <<file.id, k>> >>

C1_Witness ==
    /\ SplitDone /\ file.ok /\ splitMethod = "all" /\ file.n = MaxPages
    /\ outcome = "resolved" /\ Len(result.files) = MaxPages

\* C2: with 1 <= start <= end <= N, splitPDF(file, 'range', {start, end})
\* resolves with exactly one file of end - start + 1 pages, the source pages
\* start, start + 1, ..., end in that order.
C2_SplitRange ==
    (/\ SplitDone /\ file.ok /\ splitMethod = "range"
     /\ options.start # Undefined /\ options.end # Undefined
     /\ 1 <= options.start[1] /\ options.start[1] <= options.end[1]
     /\ options.end[1] <= file.n) =>
        /\ outcome = "resolved"
        /\ Len(result.files) = 1
        /\ Len(result.files[1].pages) = options.end[1] - options.start[1] + 1
        /\ result.files[1].pages =
              [i \in 1..(options.end[1] - options.start[1] + 1) |->
                  <<file.id, options.start[1] + (i - 1)>>]

C2_Witness ==
    /\ SplitDone /\ file.ok /\ splitMethod = "range" /\ file.n = MaxPages
    /\ options.start = Some(2) /\ options.end = Some(MaxPages)
    /\ outcome = "resolved" /\ Len(result.files[1].pages) = MaxPages - 1

\* C3: for every integer start and end the caller supplies (0, negative and
\* beyond N included), splitPDF(file, 'range', {start, end}) selects exactly
\* the zero-based indices max(1,start)-1 .. min(N,end)-1, and rejects with
\* 'Invalid page range', returning no files, when max(1,start) > min(N,end).
C3_RangeClamped ==
    (/\ op = "split" /\ pc \in {"copy", "done"} /\ file.ok /\ splitMethod = "range"
     /\ options.start # Undefined /\ options.end # Undefined) =>
        LET cs == Max(1, options.start[1])
            ce == Min(file.n, options.end[1])
        IN  IF cs > ce
              THEN /\ pc = "done" /\ outcome = "rejected"
                   /\ error = "Invalid page range"
                   /\ result = NoResult
              ELSE pageIndices = <<[i \in 1..(ce - cs + 1) |-> (cs - 1) + (i - 1)]>>

\* C4: for a non-empty list of in-bounds 1-based page numbers in any order,
\* splitPDF(file, 'custom', {selectedPages}) resolves with exactly one file
\* whose pages are the selected source pages in ascending page-number order;
\* the result depends on which pages were listed and how often, not on their
\* order.
C4_SplitCustomSorted ==
    (/\ SplitDone /\ file.ok /\ splitMethod = "custom"
     /\ options.selectedPages # Undefined
     /\ Len(options.selectedPages[1]) > 0
     /\ Range(options.selectedPages[1]) \subseteq 1..file.n) =>
        /\ outcome = "resolved"
        /\ Len(result.files) = 1
        /\ result.files[1].pages =
              [i \in 1..Len(options.selectedPages[1]) |->
                  <<file.id, Ascending(options.selectedPages[1], file.n)[i]>>]

C4_Witness ==
    /\ SplitDone /\ file.ok /\ splitMethod = "custom"
    /\ options.selectedPages = Some(<<3, 1, 2>>)
    /\ outcome = "resolved"
    /\ result.files[1].pages = << <<file.id, 1>>, <<file.id, 2>>, <<file.id, 3>> >>

\* C5: in every successful splitPDF call, whatever the method and the input
\* (a custom selection listing a page twice included), every page-index
\* sequence holds no index twice and is in non-decreasing order, and there is
\* one sequence per page for 'all' and exactly one for 'range' and 'custom'.
C5_IndexSetsUnique ==
    (SplitDone /\ outcome = "resolved") =>
        /\ \A s \in 1..Len(pageIndices) :
             \A i, j \in 1..Len(pageIndices[s]) :
                i < j => /\ pageIndices[s][i] # pageIndices[s][j]
                         /\ pageIndices[s][i] <= pageIndices[s][j]
        /\ splitMethod = "all" => Len(pageIndices) = totalPages
        /\ splitMethod \in {"range", "custom"} => Len(pageIndices) = 1

C7_MergeAllOrNothing ==
    (MergeDone /\ \E i \in 1..Len(files) : ~files[i].ok) =>
        /\ outcome = "rejected"
        /\ result = NoResult
        /\ docsSaved = 0

C7_Witness ==
    /\ MergeDone /\ outcome = "rejected" /\ result = NoResult
    /\ Len(files) >= 2 /\ files[1].ok /\ ~files[Len(files)].ok
    /\ Len(mergedPdf) > 0

InvalidParameter ==
    \/ splitMethod \notin {"all", "range", "custom"}
    \/ /\ splitMethod = "custom"
       /\ \/ options.selectedPages = Undefined
          \/ Len(options.selectedPages[1]) = 0

\* C8: splitPDF rejects and returns no files for every invalid parameter; on
\* a decoded source a method other than 'all', 'range', 'custom' gives
\* 'Invalid split method' and 'custom' with an absent or empty selectedPages
\* gives 'No pages selected'; no document was created or serialized before.
C8_InvalidParameterRejects ==
    (op = "split" /\ pc # "select" /\ InvalidParameter) =>
        /\ pc = "done"
        /\ outcome = "rejected"
        /\ result = NoResult
        /\ splitFiles = <<>>
        /\ docsCreated = 0
        /\ docsSaved = 0
        /\ file.ok => error = (IF splitMethod = "custom" THEN "No pages selected"
                                                        ELSE "Invalid split method")

C8_Witness ==
    /\ SplitDone /\ file.ok /\ file.n > 0 /\ splitMethod = "pages"
    /\ outcome = "rejected" /\ error = "Invalid split method" /\ docsCreated = 0

\* C9: getPDFPageCount never rejects: it resolves with the page count of a
\* decodable file and with 0 when the decode fails, whereas splitPDF and
\* mergePDFs reject on a source that fails to decode.
C9_PageCountSoftFail ==
    /\ op = "count" =>
          /\ pc = "done"
          /\ outcome = "resolved"
          /\ result.count = (IF file.ok THEN file.n ELSE 0)
    /\ (SplitDone /\ ~file.ok) => (outcome = "rejected" /\ error = "decode")
    /\ (MergeDone /\ \E i \in 1..Len(files) : ~files[i].ok) =>
          (outcome = "rejected" /\ error = "decode")

C9_Witness ==
    /\ op = "count" /\ pc = "done" /\ ~file.ok /\ file.n > 0
    /\ outcome = "resolved" /\ result.count = 0

IndividualDownloads ==
    /\ Len(downloads) = Len(files)
    /\ \A i \in 1..Len(files) :
          downloads[i].name = files[i].name /\ downloads[i].blob = files[i]

OneArchive ==
    /\ Len(downloads) = 1
    /\ downloads[1].blob.kind = "zip"
    /\ Len(downloads[1].blob.entries) = Len(files)
    /\ \A i \in 1..Len(files) :
          Cardinality({e \in 1..Len(downloads[1].blob.entries) :
                         downloads[1].blob.entries[e] =
                             [name |-> files[i].name, data |-> files[i]]}) = 1

\* C10: downloadAsZip never rejects and emits in exactly one of two ways:
\* without JSZip, or when packing or generation failed, every input file as
\* one individual download and no archive; otherwise exactly one archive
\* with one entry per input file (entry name = file name) and no individual
\* download.
C10_ZipOrIndividual ==
    (op = "zip" /\ pc = "done") =>
        /\ outcome = "resolved"
        /\ IF ~JSZipDefined \/ "Error creating ZIP:" \in Range(console)
             THEN IndividualDownloads
             ELSE OneArchive

\* ------------------------------------------------------- ImageTools claims
\* a resizeImage call whose load handler has run
Resized(c) ==
    calls[c].tool = "resize" /\ calls[c].phase = "finished" /\ calls[c].file.ok

\* a convertToWebP call whose load or error handler has run
Converted(c) == calls[c].tool = "webp" /\ calls[c].phase = "finished"

C13_WholeDimensions ==
    \A c \in Calls :
        Resized(c) => IsWhole(calls[c].newWidth) /\ IsWhole(calls[c].newHeight)

\* C14: every convertToWebP / resizeImage call creates one object URL and
\* revokes it exactly once, in the load handler or in the error handler: a
\* loading call's URL is live and unrevoked, a finished call's URL was
\* revoked once and is gone, no URL outlives its call, and two calls in
\* flight hold different URLs.
C14_UrlReleasedOnce ==
    /\ \A c \in Calls :
          /\ calls[c].phase = "idle" => calls[c].created = 0 /\ calls[c].revoked = 0
          /\ calls[c].phase = "loading" =>
                calls[c].created = 1 /\ calls[c].revoked = 0 /\ calls[c].url \in liveUrls
          /\ calls[c].phase = "finished" =>
                calls[c].created = 1 /\ calls[c].revoked = 1 /\ calls[c].url \notin liveUrls
    /\ \A c, d \in Calls :
          (c # d /\ calls[c].phase = "loading" /\ calls[d].phase # "idle") =>
              calls[c].url # calls[d].url
    /\ liveUrls = {calls[c].url : c \in {d \in Calls : calls[d].phase = "loading"}}

C14_Witness ==
    /\ calls[1].phase = "finished" /\ calls[1].promise = "rejected"
    /\ calls[1].revoked = 1
    /\ calls[2].phase = "loading" /\ calls[2].url \in liveUrls

\* C15: convertToWebP on a decodable W x H image renders on a W x H canvas and
\* resolves with a file of that pixel size, encoded at the caller's quality
\* when lossless is false and at 1 when lossless is true; on an undecodable
\* image it rejects with the load error.
C15_WebPSameSize ==
    \A c \in Calls :
        Converted(c) =>
            LET k == calls[c] IN
            IF k.file.ok
              THEN /\ k.canvas = [width |-> k.file.width, height |-> k.file.height]
                   /\ k.promise = "resolved"
                   /\ k.value.blob.data[1].width = k.file.width
                   /\ k.value.blob.data[1].height = k.file.height
                   /\ k.qualityParam = (IF k.lossless THEN Num(1) ELSE k.quality)
                   /\ k.value.blob.data[1].quality = k.qualityParam
              ELSE /\ k.promise = "rejected"
                   /\ k.error = "Failed to load image"

C15_Witness ==
    /\ Converted(1) /\ calls[1].file.ok /\ calls[1].lossless
    /\ calls[1].file.width = MaxDim /\ calls[1].file.height = 1
    /\ calls[1].quality = Rat(1, 2) /\ calls[1].qualityParam = Num(1)
    /\ calls[1].promise = "resolved"

\* C16: once the load or error event of a convertToWebP / resizeImage call
\* has been handled, the call's promise is settled, exactly once: resolved
\* with a file or rejected with an error, also when the load handler throws.
C16_SettledAfterEvent ==
    \A c \in Calls :
        calls[c].phase = "finished" =>
            /\ calls[c].promise \in {"resolved", "rejected"}
            /\ calls[c].settled = 1

\* ---------------------------------------------------------------- UI claim
\* C17: on a page initialised at a width <= 768, after any clicks on the menu
\* toggle and any window resizes, whenever the toggle is visible its icon is
\* fa-times exactly when the nav links are displayed ('flex') and fa-bars
\* exactly when they are hidden ('none').
C17_IconMatchesNav ==
    (ui.loaded /\ ui.menuToggle /\ ui.toggleDisplay = "block") =>
        /\ ui.toggleIcon = "fa-times" <=> ui.navDisplay = "flex"
        /\ ui.toggleIcon = "fa-bars" <=> ui.navDisplay = "none"

====
